---- MODULE Spec2Model ----
(***************************************************************************)
(* The resilient dispatch core of the API gateway: the per-backend circuit *)
(* breaker (package resilience), the service registry and the reverse      *)
(* proxy dispatcher (package proxy), as wired by the gateway's main.       *)
(*                                                                         *)
(* Every critical section of the breaker (the code between a Lock/RLock    *)
(* and the matching unlock) is one atomic step: the breaker's fields are   *)
(* read and written only under cb.mu.  SpecLock follows the lock itself.   *)
(*                                                                         *)
(* Time is counted in units of 60 s.  The code uses lastFailureTime only   *)
(* in time.Since(cb.lastFailureTime) > ResetTimeout, so a breaker keeps    *)
(* that difference: the field sinceFailure is time.Since(lastFailureTime), *)
(* counted up to ResetTimeout + 1 ("longer ago than the reset timeout").   *)
(* Storing time.Now() in lastFailureTime makes it 0, a tick of the clock   *)
(* adds one, and the zero time.Time of a new breaker is longer ago than    *)
(* any timeout.                                                            *)
(*                                                                         *)
(* Spec   : goroutines calling CircuitBreaker.Execute(ctx, fn) on one      *)
(*          breaker, fn being any function that returns nil or an error.   *)
(* SpecGw : goroutines serving inbound requests through                    *)
(*          Gateway.ProxyHandler, fn being Gateway.proxyRequest, which     *)
(*          does not panic.                                                *)
(* SpecStats  : Spec, with calls of CircuitBreaker.GetStats.               *)
(* SpecPanic  : SpecGw, with proxyRequest free to panic.                   *)
(* SpecReg    : Gateway.RegisterService calls and dispatches in turn.      *)
(* SpecRetry  : one goroutine inside Retry.Execute.                        *)
(* SpecDelay  : Retry.calculateDelay applied to one attempt.               *)
(* SpecHealth : Gateway.HealthCheckHandler serving GET /health.            *)
(* SpecLive   : Spec with a backend that recovers, under fair scheduling.  *)
(* SpecLock   : Execute and GetStats on one breaker, one operation on      *)
(*              cb.mu at a time, under fair scheduling.                    *)
(***************************************************************************)
EXTENDS Integers, Sequences, FiniteSets, TLC

\* ---------------------------------------------------------------- bounds
MaxK     == 2      \* MaxFailures is drawn from 1..MaxK
MaxS     == 2      \* SuccessThreshold is drawn from 1..MaxS
MaxFail  == 3      \* cap on failureCount
MaxSucc  == 2      \* cap on successCount
NumProcs == 2      \* concurrent goroutines
MaxN     == 2      \* Retry.MaxRetries is drawn from -1..MaxN
MaxAttempt == 32   \* calculateDelay is applied to attempts 1..MaxAttempt

Procs == 1..NumProcs

\* ------------------------------------------------------- program constants
StateClosed   == 0
StateHalfOpen == 1
StateOpen     == 2

ResetTimeout == 1          \* 60 s

StatusNotFound           == 404
StatusBadGateway         == 502
StatusServiceUnavailable == 503
StatusOK                 == 200

DefaultTimeout == 30       \* seconds

\* what a backend can answer; a round trip that fails in transport has no code
BackendStatuses == {200, 404, 500}
NoRoundTrip == [kind |-> "none", code |-> 0]
RoundTrips ==
  [kind : {"status"}, code : BackendStatuses] \cup {[kind |-> "refused", code |-> 0]}

\* names a route can be bound to: two registered services, one that is not
Registered == {"A", "B"}
Names == Registered \cup {"X"}
\* the name field of a goroutine that calls Execute itself
NoName == "-"
\* the CircuitBreaker objects there can be at one time
Breakers == {"cb1", "cb2", "cb3"}

VARIABLES
  services,   \* Gateway.services: name -> ServiceConfig
  cb,         \* the CircuitBreaker objects: state, counters, timestamp, settings
  req,        \* one record per goroutine
  failRun,    \* history, per breaker: failures recorded so far while no success
              \*   has been recorded yet; -1 once a success has been recorded
  trialSucc,  \* history, per breaker: successes recorded, since the breaker last
              \*   entered HalfOpen, of calls admitted in that HalfOpen period;
              \*   -1 while the breaker has never been HalfOpen
  overlap,    \* history, per breaker: two executes have been in flight together
  stats,      \* what the last GetStats call returned
  health,     \* the goroutine serving GET /health
  retry,      \* the goroutine inside Retry.Execute
  abandoned,  \* per goroutine: the fn of its execute is still running in the
              \*   goroutine executeWithTimeout started, after Execute gave up
              \*   waiting for it
  recovered,  \* the environment: every fn invoked from now on returns nil in
              \*   time
  mu,         \* cb1.mu, the sync.RWMutex, for the goroutines of thr
  thr         \* goroutines calling cb1.Execute and cb1.GetStats, followed
              \*   lock operation by lock operation

vars ==
  <<services, cb, req, failRun, trialSucc, overlap, stats, health, retry,
    abandoned, recovered, mu, thr>>

\* ------------------------------------------------------------ the breaker

\* time.Since of a time longer ago than the reset timeout
LongAgo == ResetTimeout + 1

NewCircuitBreaker(settings) ==
  [state |-> StateClosed, failureCount |-> 0, successCount |-> 0,
   sinceFailure |-> LongAgo, settings |-> settings]

\* getState never finding the reset timeout elapsed
ResetElapsed_Never(c) == FALSE

\* ResetElapsed with >= for >
ResetElapsed_AtTimeout(c) ==
  c.state = StateOpen /\ c.sinceFailure >= c.settings.ResetTimeout

\* getState, the test of lines 74-75, under the read lock
ResetElapsed(c) ==
  c.state = StateOpen /\ c.sinceFailure > c.settings.ResetTimeout

\* getStateLocked with line 80 left out
getStateLocked_KeepsCount(c) ==
  IF c.state = StateOpen /\ c.sinceFailure > c.settings.ResetTimeout
  THEN [c EXCEPT !.state = StateHalfOpen]
  ELSE c

\* getState, lines 77-82: the re-check and the transition under the write lock
getStateLocked(c) ==
  IF c.state = StateOpen /\ c.sinceFailure > c.settings.ResetTimeout
  THEN [c EXCEPT !.state = StateHalfOpen, !.successCount = 0]
  ELSE c

\* onSuccess with line 146 left out
onSuccess_NoReset(c) ==
  LET c1 == [c EXCEPT !.successCount = @ + 1] IN
  IF c1.state = StateHalfOpen /\ c1.successCount >= c1.settings.SuccessThreshold
  THEN [c1 EXCEPT !.state = StateClosed, !.failureCount = 0, !.successCount = 0]
  ELSE c1

\* onSuccess closing the breaker from any state
onSuccess_AnyState(c) ==
  LET c1 == [c EXCEPT !.successCount = @ + 1] IN
  IF c1.successCount >= c1.settings.SuccessThreshold
  THEN [c1 EXCEPT !.state = StateClosed, !.failureCount = 0, !.successCount = 0]
  ELSE IF c1.state = StateClosed
       THEN [c1 EXCEPT !.failureCount = 0]
       ELSE c1

\* onSuccess with > for >= in line 141
onSuccess_Late(c) ==
  LET c1 == [c EXCEPT !.successCount = @ + 1] IN
  IF c1.state = StateHalfOpen /\ c1.successCount > c1.settings.SuccessThreshold
  THEN [c1 EXCEPT !.state = StateClosed, !.failureCount = 0, !.successCount = 0]
  ELSE IF c1.state = StateClosed
       THEN [c1 EXCEPT !.failureCount = 0]
       ELSE c1

onSuccess(c) ==
  LET c1 == [c EXCEPT !.successCount = @ + 1] IN
  IF c1.state = StateHalfOpen /\ c1.successCount >= c1.settings.SuccessThreshold
  THEN [c1 EXCEPT !.state = StateClosed, !.failureCount = 0, !.successCount = 0]
  ELSE IF c1.state = StateClosed
       THEN [c1 EXCEPT !.failureCount = 0]
       ELSE c1

\* onFailure with > for >= in line 158
onFailure_Late(c) ==
  LET c1 == [c EXCEPT !.failureCount = @ + 1, !.sinceFailure = 0] IN
  IF c1.failureCount > c1.settings.MaxFailures
  THEN [c1 EXCEPT !.state = StateOpen]
  ELSE c1

onFailure(c) ==
  LET c1 == [c EXCEPT !.failureCount = @ + 1, !.sinceFailure = 0] IN
  IF c1.failureCount >= c1.settings.MaxFailures
  THEN [c1 EXCEPT !.state = StateOpen]
  ELSE c1

\* DefaultSettings; Timeout is the call deadline, which CtxDone stands for
DefaultSettings ==
  [MaxFailures |-> 5, ResetTimeout |-> ResetTimeout, SuccessThreshold |-> 3]

\* Execute's switch running fn only for a Closed breaker
Admits_ClosedOnly(st) == st = StateClosed

\* Execute's switch with the StateOpen case left out
Admits_All(st) == TRUE

\* Execute's switch on the state getState returned: is fn run?
Admits(st) == st # StateOpen

\* the result of an abandoned fn recorded like one that came in time
LateResult_Recorded(c, e) == IF e = "nil" THEN onSuccess(c) ELSE onFailure(c)

\* executeWithTimeout once the select took ctx.Done(): the breaker after fn's
\* result e went into the channel done, which is never read again
LateResult(c, e) == c

\* CircuitBreakerState.String
String(s) ==
  IF s = StateClosed THEN "CLOSED"
  ELSE IF s = StateHalfOpen THEN "HALF_OPEN"
  ELSE IF s = StateOpen THEN "OPEN"
  ELSE "UNKNOWN"

\* GetStats: the four fields, read in one read-locked section; last_failure
\* is given as its age when the snapshot is taken
GetStats(c) ==
  [state |-> String(c.state), failure_count |-> c.failureCount,
   success_count |-> c.successCount, last_failure |-> c.sinceFailure]

\* no GetStats call has returned yet
NoStats == [state |-> "-", failure_count |-> 0, success_count |-> 0,
            last_failure |-> 0]

\* ------------------------------------------------------------ cb.mu
\* A sync.RWMutex: the goroutines holding it for reading, the one holding it
\* for writing (0 for none), and the ones blocked in Lock.  A goroutine blocked
\* in Lock keeps new readers out.
FreeMutex == [readers |-> {}, writer |-> 0, waiting |-> {}]

CanRLock(m) == m.writer = 0 /\ m.waiting = {}

\* Lock not waiting for the readers to leave
CanLock_IgnoreReaders(m) == m.writer = 0

CanLock(m) == m.writer = 0 /\ m.readers = {}

RLock(m, p) == [m EXCEPT !.readers = @ \cup {p}]

\* RUnlock that leaves the read lock held
RUnlock_Keeps(m, p) == m

RUnlock(m, p) == [m EXCEPT !.readers = @ \ {p}]

\* p calls Lock and blocks
LockCall(m, p) == [m EXCEPT !.waiting = @ \cup {p}]

\* the blocked p gets the lock
Lock(m, p) == [m EXCEPT !.writer = p, !.waiting = @ \ {p}]

Unlock(m, p) == [m EXCEPT !.writer = 0]

\* the counters kept within the bounds of the model
Saturate(c) ==
  [c EXCEPT !.failureCount = IF @ > MaxFail THEN MaxFail ELSE @,
            !.successCount = IF @ > MaxSucc THEN MaxSucc ELSE @]

IdleThread == [pc |-> "idle", st |-> StateClosed, e |-> "none", snap |-> NoStats]

\* ------------------------------------------------------------ the gateway

\* NewGateway: an empty registry
NewGateway == <<>>

\* setupGateway handing one breaker to every service
setupGateway_Shared(urlOk) ==
  [n \in Registered |->
     [Name |-> n, URLValid |-> urlOk[n], CircuitBreaker |-> "cb1"]]

\* setupGateway: every service is registered with a breaker of its own
setupGateway(urlOk) ==
  [n \in Registered |->
     [Name |-> n, URLValid |-> urlOk[n],
      CircuitBreaker |-> IF n = "A" THEN "cb1" ELSE "cb2"]]

\* the ServiceConfig values handed to RegisterService: CircuitBreaker is nil,
\* or a breaker the caller has just made with NewCircuitBreaker
Configs ==
  {[Name |-> n, URLValid |-> TRUE, HealthPath |-> "/health", Timeout |-> 0,
    CircuitBreaker |-> "new"] : n \in Registered}
  \cup
  {[Name |-> "A", URLValid |-> FALSE, HealthPath |-> "", Timeout |-> 10,
    CircuitBreaker |-> "nil"]}

\* RegisterService, lines 49-54: the defaults, id being the service's breaker
WithDefaults(service, id) ==
  [service EXCEPT !.CircuitBreaker = id,
                  !.Timeout = IF @ = 0 THEN DefaultTimeout ELSE @]

\* RegisterService, line 55: g.services[service.Name] = service
Register(svcs, service) ==
  [n \in DOMAIN svcs \cup {service.Name} |->
     IF n = service.Name THEN service ELSE svcs[n]]

\* proxyRequest returning an error for a 5xx answer of the backend
proxyRequest_5xxFails(svc, rt) ==
  IF ~svc.URLValid
  THEN [err |-> TRUE, wrote |-> <<>>]
  ELSE IF rt.kind = "refused"
       THEN [err |-> FALSE,
             wrote |-> <<[code |-> StatusBadGateway, service |-> "-"]>>]
       ELSE [err |-> rt.code >= 500,
             wrote |-> <<[code |-> rt.code, service |-> "-"]>>]

\* proxyRequest: what fn returns and what it writes to the client, by the
\* validity of the target URL and the outcome rt of the round trip
proxyRequest(svc, rt) ==
  IF ~svc.URLValid
  THEN [err |-> TRUE, wrote |-> <<>>]
  ELSE IF rt.kind = "refused"
       THEN [err |-> FALSE,
             wrote |-> <<[code |-> StatusBadGateway, service |-> "-"]>>]
       ELSE [err |-> FALSE, wrote |-> <<[code |-> rt.code, service |-> "-"]>>]

\* ProxyHandler's mapping of Execute's error to the client response
ErrorResponse(err, name) ==
  IF err = "open"
  THEN [code |-> StatusServiceUnavailable, service |-> name]
  ELSE [code |-> StatusBadGateway, service |-> name]

\* what the caller of Execute writes to the client on error err: ProxyHandler
\* answers, a goroutine that called Execute itself has no client
HandlerWrites(r, err) ==
  IF r.name = NoName THEN <<>> ELSE <<ErrorResponse(err, r.name)>>

\* checkServiceHealth counting every answer below 500 as healthy
checkServiceHealth_Below500(service, rt) ==
  IF service.HealthPath = ""
  THEN [healthy |-> TRUE, details |-> "No health check configured"]
  ELSE IF ~service.URLValid
  THEN [healthy |-> FALSE, details |-> "Failed to create health check request"]
  ELSE IF rt.kind = "refused"
  THEN [healthy |-> FALSE, details |-> "Health check failed"]
  ELSE IF rt.code >= 200 /\ rt.code < 500
  THEN [healthy |-> TRUE, details |-> "Health check passed"]
  ELSE [healthy |-> FALSE, details |-> "Health check failed with status"]

\* checkServiceHealth, rt being the outcome of client.Do where it is reached
checkServiceHealth(service, rt) ==
  IF service.HealthPath = ""
  THEN [healthy |-> TRUE, details |-> "No health check configured"]
  ELSE IF ~service.URLValid
  THEN [healthy |-> FALSE, details |-> "Failed to create health check request"]
  ELSE IF rt.kind = "refused"
  THEN [healthy |-> FALSE, details |-> "Health check failed"]
  ELSE IF rt.code >= 200 /\ rt.code < 300
  THEN [healthy |-> TRUE, details |-> "Health check passed"]
  ELSE [healthy |-> FALSE, details |-> "Health check failed with status"]

\* does checkServiceHealth reach client.Do
Probes(service) == service.HealthPath # "" /\ service.URLValid

\* HealthCheckHandler, lines 153-162: the loop body for service name, once
\* checkServiceHealth has returned
Collect(h, name, rt) ==
  LET res == checkServiceHealth(services[name], rt) IN
  [h EXCEPT
     !.pc = "loop", !.cur = NoName, !.todo = @ \ {name},
     !.rt = [n \in DOMAIN @ \cup {name} |-> IF n = name THEN rt ELSE @[n]],
     !.results =
        [n \in DOMAIN @ \cup {name} |->
           IF n = name
           THEN [healthy |-> res.healthy, details |-> res.details,
                 circuit_breaker |-> GetStats(cb[services[name].CircuitBreaker])]
           ELSE @[n]],
     !.overallHealthy = IF ~res.healthy THEN FALSE ELSE @]

\* ---------------------------------------------------------------- retry
\* time.Duration is an int64 of nanoseconds.  Durations are counted here in
\* units of 2^33 ns (about 8.6 s), so that 2^63 ns, the first value an int64
\* cannot hold, is 2^30 units.  TooBig stands for every float64 from 2^63 ns
\* upwards.  The durations of the configurations below are multiples of 8
\* units and the random numbers are multiples of 1/4, so that every product
\* the code forms is a whole number of units and no float64 is rounded.
TooBig == 1073741824

\* float64 multiplication of two values >= 0
Mul(x, y) ==
  IF x = 0 \/ y = 0 THEN 0
  ELSE IF x > (TooBig - 1) \div y THEN TooBig
  ELSE x * y

RECURSIVE powLoop(_, _, _)
powLoop(result, base, n) ==
  IF n <= 0 THEN result ELSE powLoop(Mul(result, base), base, n - 1)

\* pow(base, exp) for a whole exp
pow(base, exp) == IF exp = 0 THEN 1 ELSE powLoop(1, base, exp)

\* The conversion of a float64 to time.Duration.  Go leaves the result to the
\* implementation when the value is out of range: amd64 gives the smallest
\* int64, arm64 the largest.
OutOfRange == {-TooBig, TooBig}
ToDuration(f, conv) == IF f < TooBig THEN f ELSE conv

\* rand.Float64(), in quarters
Rand == 0..3

\* calculateDelay(attempt), given how the build converts an out-of-range
\* value and what rand.Float64 returns
calculateDelay(r, attempt, conv, rnd) ==
  LET d0 == ToDuration(Mul(r.BaseDelay, pow(r.Multiplier, attempt - 1)), conv)
      d1 == IF d0 > r.MaxDelay THEN r.MaxDelay ELSE d0
  IN  IF r.Jitter THEN (d1 \div 8) * (4 + rnd) ELSE d1

\* every value calculateDelay(attempt) can return
Delays(r, attempt) ==
  {calculateDelay(r, attempt, conv, rnd) : conv \in OutOfRange, rnd \in Rand}

\* the Retry values
Retries ==
  [MaxRetries : -1..MaxN, BaseDelay : {8, 16}, MaxDelay : {16, 64},
   Multiplier : 1..3, Jitter : BOOLEAN]

IdleRetry ==
  [r |-> [MaxRetries |-> 0, BaseDelay |-> 8, MaxDelay |-> 16, Multiplier |-> 1,
          Jitter |-> FALSE],
   pc |-> "idle", attempt |-> 0, delay |-> 0, lastErr |-> "nil",
   result |-> "none", cancelledAt |-> "none", trace |-> <<>>]

\* Execute's loop condition with < for <=
MoreAttempts_Strict(r, attempt) == attempt < r.MaxRetries

\* Execute, line 214: the loop condition
MoreAttempts(r, attempt) == attempt <= r.MaxRetries

\* Execute's wait as a time.Sleep(delay)
Select_Sleep(w, case) ==
  [w EXCEPT !.pc = "call",
            !.trace = Append(@, [ev |-> "wait", attempt |-> w.attempt,
                                 delay |-> w.delay, res |-> "-"])]

\* Execute, lines 217-221: the select, by the case that is taken
Select(w, case) ==
  IF case = "ctx"
  THEN [w EXCEPT !.pc = "done", !.result = "ctx"]
  ELSE [w EXCEPT !.pc = "call",
                 !.trace = Append(@, [ev |-> "wait", attempt |-> w.attempt,
                                      delay |-> w.delay, res |-> "-"])]

\* ------------------------------------------------------------- goroutines

\* the goroutine of GET /health before it serves a request: rt keeps, per
\* service, how the probe's round trip ended
IdleHealth ==
  [pc |-> "idle", todo |-> {}, cur |-> NoName, rt |-> <<>>, results |-> <<>>,
   overallHealthy |-> TRUE, status |-> 0]

IdleReq ==
  [pc |-> "idle", name |-> NoName, cbid |-> "cb1", st |-> StateClosed,
   cur |-> FALSE, good |-> FALSE, err |-> "none", rt |-> NoRoundTrip,
   resp |-> <<>>]

\* goroutine q is inside Execute on breaker id
Active(q, id) == req[q].pc # "idle" /\ req[q].cbid = id

\* history: is q's admission still one of the current period of breaker id,
\* when a step takes the breaker to c1
Current(id, c1, q) ==
  IF c1.state # cb[id].state /\ req[q].cbid = id THEN FALSE ELSE req[q].cur

\* a finished request keeps its name, Execute's result and the response
Finish(r, err, wrote) ==
  [IdleReq EXCEPT !.name = r.name, !.cbid = r.cbid, !.err = err,
                  !.resp = r.resp \o wrote]

\* the outcome of Execute's switch for goroutine r once getState returned st
AfterGetState(r, st) ==
  IF Admits(st)
  THEN [r EXCEPT !.pc = "call", !.st = st, !.cur = TRUE, !.good = recovered]
  ELSE Finish(r, "open", HandlerWrites(r, "open"))

\* Execute up to the end of getState's first read-locked section (lines 71-75,
\* and 87 when the reset timeout is not tested or has not elapsed)
Enter(p, r) ==
  /\ req' = [req EXCEPT ![p] =
               IF ResetElapsed(cb[r.cbid])
               THEN [r EXCEPT !.pc = "upgrade"]
               ELSE AfterGetState(r, cb[r.cbid].state)]
  /\ overlap' = [overlap EXCEPT ![r.cbid] =
                   @ \/ \E q \in Procs \ {p} : Active(q, r.cbid)]

InitBase(svcs, K, S) ==
  /\ services = svcs
  /\ \E k \in K, s \in S :
       cb = [id \in Breakers |->
               NewCircuitBreaker([MaxFailures |-> k, ResetTimeout |-> ResetTimeout,
                                  SuccessThreshold |-> s])]
  /\ req = [p \in Procs |-> IdleReq]
  /\ failRun = [id \in Breakers |-> 0]
  /\ trialSucc = [id \in Breakers |-> -1]
  /\ overlap = [id \in Breakers |-> FALSE]
  /\ stats = NoStats
  /\ health = IdleHealth
  /\ abandoned = [p \in Procs |-> FALSE]
  /\ recovered = FALSE
  /\ mu = FreeMutex
  /\ thr = [p \in Procs |-> IdleThread]

InitWith(svcs, K, S) ==
  /\ InitBase(svcs, K, S)
  /\ retry = IdleRetry

\* a breaker and the goroutines that will call its Execute
Init == InitWith(NewGateway, 1..MaxK, 1..MaxS)

\* the gateway after main's setupGateway
InitGw ==
  \E urlOk \in {[n \in Registered |-> TRUE], [n \in Registered |-> n = "A"]} :
    InitWith(setupGateway(urlOk), {MaxK}, {MaxS})

\* the clock advances by one unit
Elapse(c) == [c EXCEPT !.sinceFailure = IF @ < LongAgo THEN @ + 1 ELSE @]

Tick ==
  /\ cb' = [id \in Breakers |-> Elapse(cb[id])]
  /\ UNCHANGED <<mu, thr, recovered, abandoned, stats, health, retry, services, req, failRun, trialSucc, overlap>>

\* a goroutine calls cb1.Execute(ctx, fn)
Execute(p) ==
  /\ req[p].pc = "idle"
  /\ ~abandoned[p]
  /\ Enter(p, IdleReq)
  /\ UNCHANGED <<mu, thr, recovered, abandoned, stats, health, retry, services, cb, failRun, trialSucc>>

\* ProxyHandler(n) serves a new request: the lookup, then Execute
ProxyHandler(p, n) ==
  /\ req[p].pc = "idle"
  /\ ~abandoned[p]
  /\ IF n \notin DOMAIN services
     THEN /\ req' = [req EXCEPT ![p] =
                       Finish([IdleReq EXCEPT !.name = n], "notfound",
                              <<[code |-> StatusNotFound, service |-> "-"]>>)]
          /\ UNCHANGED overlap
     ELSE Enter(p, [IdleReq EXCEPT !.name = n,
                                   !.cbid = services[n].CircuitBreaker])
  /\ UNCHANGED <<mu, thr, recovered, abandoned, stats, health, retry, services, cb, failRun, trialSucc>>

\* getState, lines 76-82: the write-locked section
GetStateUpgrade(p) ==
  /\ req[p].pc = "upgrade"
  /\ LET id == req[p].cbid
         c1 == getStateLocked(cb[id])
     IN  /\ cb' = [cb EXCEPT ![id] = c1]
         /\ trialSucc' = [trialSucc EXCEPT ![id] =
                            IF c1.state # cb[id].state THEN 0 ELSE @]
         /\ req' = [q \in Procs |->
                      IF q = p THEN [req[q] EXCEPT !.pc = "reread"]
                      ELSE [req[q] EXCEPT !.cur = Current(id, c1, q)]]
  /\ UNCHANGED <<mu, thr, recovered, abandoned, stats, health, retry, services, failRun, overlap>>

\* getState, lines 83-87: the second read-locked section, and Execute's switch
GetStateReturn(p) ==
  /\ req[p].pc = "reread"
  /\ req' = [req EXCEPT ![p] = AfterGetState(req[p], cb[req[p].cbid].state)]
  /\ UNCHANGED <<mu, thr, recovered, abandoned, stats, health, retry, services, cb, failRun, trialSucc, overlap>>

\* executeWithTimeout, the select's first case, for a goroutine that called
\* Execute itself: fn returns nil or an error
FnReturn(p) ==
  /\ req[p].pc = "call"
  /\ req[p].name = NoName
  /\ \E e \in {"nil", "err"} :
       req' = [req EXCEPT ![p] =
                 [@ EXCEPT !.pc = IF e = "nil" THEN "onSuccess" ELSE "onFailure",
                           !.err = e]]
  /\ UNCHANGED <<mu, thr, recovered, abandoned, stats, health, retry, services, cb, failRun, trialSucc, overlap>>

\* executeWithTimeout, the select's first case, in ProxyHandler: proxyRequest
\* returns after a round trip that ended as rt
ProxyRequestReturn(p) ==
  /\ req[p].pc = "call"
  /\ req[p].name # NoName
  /\ \E rt \in RoundTrips :
       LET out == proxyRequest(services[req[p].name], rt) IN
       req' = [req EXCEPT ![p] =
                 [@ EXCEPT !.pc = IF out.err THEN "onFailure" ELSE "onSuccess",
                           !.err = IF out.err THEN "err" ELSE "nil",
                           !.rt = IF services[req[p].name].URLValid
                                  THEN rt ELSE NoRoundTrip,
                           !.resp = @ \o out.wrote]]
  /\ UNCHANGED <<mu, thr, recovered, abandoned, stats, health, retry, services, cb, failRun, trialSucc, overlap>>

\* executeWithTimeout's goroutine (lines 122-124) runs fn with no recover: a
\* panic of proxyRequest, such as the one proxy.ServeHTTP raises when the
\* backend's answer breaks off after its status line, is a panic of a goroutine
\* that nothing recovers, which ends the process and with it every goroutine
FnPanic(p) ==
  /\ req[p].pc = "call"
  /\ req[p].name # NoName
  /\ services[req[p].name].URLValid
  /\ \E code \in BackendStatuses :
       req' = [q \in Procs |->
                 IF q = p
                 THEN [req[q] EXCEPT !.pc = "crashed",
                                     !.resp = @ \o <<[code |-> code, service |-> "-"]>>]
                 ELSE [req[q] EXCEPT !.pc = "crashed"]]
  /\ UNCHANGED <<mu, thr, recovered, abandoned, stats, health, retry, services, cb, failRun, trialSucc, overlap>>

\* executeWithTimeout, the select's second case: the deadline or the caller's
\* cancellation comes before fn's result
CtxDone(p) ==
  /\ req[p].pc = "call"
  /\ req' = [req EXCEPT ![p] = [@ EXCEPT !.pc = "onFailure", !.err = "ctx"]]
  /\ abandoned' = [abandoned EXCEPT ![p] = TRUE]
  /\ UNCHANGED <<mu, thr, recovered, stats, health, retry, services, cb, failRun, trialSucc, overlap>>

\* executeWithTimeout, lines 122-124, after the select took ctx.Done(): fn
\* returns in its goroutine, the result goes into the buffered channel done,
\* which nobody reads any more, and the goroutine ends
FnLateReturn(p) ==
  /\ abandoned[p]
  /\ req[p].name = NoName
  /\ \E e \in {"nil", "err"} :
       cb' = [cb EXCEPT ![req[p].cbid] = LateResult(@, e)]
  /\ abandoned' = [abandoned EXCEPT ![p] = FALSE]
  /\ UNCHANGED <<mu, thr, recovered, stats, health, retry, services, req, failRun, trialSucc, overlap>>

\* the same for proxyRequest: proxy.ServeHTTP goes on with the request's
\* c.Writer, and what the round trip brings, the backend's status or the
\* ErrorHandler's 502, is written to it
ProxyRequestLateReturn(p) ==
  /\ abandoned[p]
  /\ req[p].name # NoName
  /\ \E rt \in RoundTrips :
       LET out == proxyRequest(services[req[p].name], rt) IN
       /\ req' = [req EXCEPT ![p].resp = @ \o out.wrote]
       /\ cb' = [cb EXCEPT ![req[p].cbid] =
                   LateResult(@, IF out.err THEN "err" ELSE "nil")]
  /\ abandoned' = [abandoned EXCEPT ![p] = FALSE]
  /\ UNCHANGED <<mu, thr, recovered, stats, health, retry, services, failRun, trialSucc, overlap>>

\* executeClosed / executeHalfOpen after a nil result: onSuccess, return nil;
\* the caller writes nothing more
ExecuteSuccess(p) ==
  /\ req[p].pc = "onSuccess"
  /\ LET id == req[p].cbid
         c1 == onSuccess(cb[id])
     IN  /\ cb[id].successCount < MaxSucc
         /\ cb' = [cb EXCEPT ![id] = c1]
         /\ failRun' = [failRun EXCEPT ![id] = -1]
         /\ trialSucc' = [trialSucc EXCEPT ![id] =
                            IF req[p].cur /\ req[p].st = StateHalfOpen
                            THEN @ + 1 ELSE @]
         /\ req' = [q \in Procs |->
                      IF q = p THEN Finish(req[q], "nil", <<>>)
                      ELSE [req[q] EXCEPT !.cur = Current(id, c1, q)]]
  /\ UNCHANGED <<mu, thr, recovered, abandoned, stats, health, retry, services, overlap>>

\* executeClosed / executeHalfOpen after an error: onFailure, return the error;
\* ProxyHandler answers 502
ExecuteFailure(p) ==
  /\ req[p].pc = "onFailure"
  /\ LET id == req[p].cbid
         c1 == onFailure(cb[id])
     IN  /\ cb[id].failureCount < MaxFail
         /\ cb' = [cb EXCEPT ![id] = c1]
         /\ failRun' = [failRun EXCEPT ![id] = IF @ >= 0 THEN @ + 1 ELSE @]
         /\ req' = [q \in Procs |->
                      IF q = p
                      THEN Finish(req[q], req[q].err, HandlerWrites(req[q], req[q].err))
                      ELSE [req[q] EXCEPT !.cur = Current(id, c1, q)]]
  /\ UNCHANGED <<mu, thr, recovered, abandoned, stats, health, retry, services, trialSucc, overlap>>

\* the breaker objects that would be unreachable if svcs were the registry
Unreachable(svcs) ==
  {id \in Breakers : \A n \in DOMAIN svcs : svcs[n].CircuitBreaker # id}

\* RegisterService(c), called while no request is being served (the map is
\* not synchronised).  The breaker of the stored config is a new object: the
\* one the caller made for c, or the one line 50 makes.  A new object takes an
\* identity that no registered service holds, and an object that no service
\* holds any more is gone.
RegisterService(c) ==
  /\ \A p \in Procs : req[p].pc = "idle"
  /\ LET id   == CHOOSE b \in Unreachable(services) : TRUE
         new  == NewCircuitBreaker(
                   IF c.CircuitBreaker = "nil"
                   THEN DefaultSettings
                   ELSE [MaxFailures |-> MaxK, ResetTimeout |-> ResetTimeout,
                         SuccessThreshold |-> MaxS])
         svcs == Register(services, WithDefaults(c, id))
         gone == Unreachable(svcs)
     IN  /\ Unreachable(services) # {}
         /\ services' = svcs
         /\ cb' = [b \in Breakers |->
                     IF b = id THEN new
                     ELSE IF b \in gone THEN NewCircuitBreaker(new.settings)
                     ELSE cb[b]]
         /\ failRun' = [b \in Breakers |-> IF b = id \/ b \in gone THEN 0 ELSE failRun[b]]
         /\ trialSucc' = [b \in Breakers |-> IF b = id \/ b \in gone THEN -1 ELSE trialSucc[b]]
         /\ overlap' = [b \in Breakers |-> IF b = id \/ b \in gone THEN FALSE ELSE overlap[b]]
  /\ UNCHANGED <<req, mu, thr, recovered, abandoned, stats, health, retry>>

\* ------------------------------------------------- Retry.Execute's steps
RetryUnchanged ==
  UNCHANGED <<services, cb, req, mu, thr, recovered, abandoned, failRun, trialSucc, overlap, stats, health>>

\* a goroutine calls r.Execute(ctx, fn): lines 212 and 214, attempt := 0
RetryExecute ==
  /\ retry.pc = "idle"
  /\ retry' = [retry EXCEPT !.pc = "loop"]
  /\ RetryUnchanged

\* lines 214-216: the loop condition, then either the return of lastErr, the
\* first attempt, or the delay and the entry into the select
RetryLoop ==
  /\ retry.pc = "loop"
  /\ IF ~MoreAttempts(retry.r, retry.attempt)
     THEN retry' = [retry EXCEPT !.pc = "done", !.result = retry.lastErr]
     ELSE IF retry.attempt > 0
     THEN \E d \in Delays(retry.r, retry.attempt) :
            retry' = [retry EXCEPT !.pc = "wait", !.delay = d]
     ELSE retry' = [retry EXCEPT !.pc = "call"]
  /\ RetryUnchanged

\* line 218: the timer fires while the goroutine is in the select.  When the
\* context was done before the select began both cases can be ready, and the
\* select takes either.
RetryAfter ==
  /\ retry.pc = "wait"
  /\ retry' = Select(retry, "timer")
  /\ RetryUnchanged

\* lines 219-220, the context having been done before the select began
RetryCtxDone ==
  /\ retry.pc = "wait"
  /\ retry.cancelledAt # "none"
  /\ retry' = Select(retry, "ctx")
  /\ RetryUnchanged

\* the context is cancelled or expires while the goroutine is parked in the
\* select: the closing of ctx.Done() wakes it with that case
RetryCancelWaiting ==
  /\ retry.pc = "wait"
  /\ retry.cancelledAt = "none"
  /\ retry' = Select([retry EXCEPT !.cancelledAt = "wait"], "ctx")
  /\ RetryUnchanged

\* the context is cancelled or expires at another point of Execute
RetryCancel ==
  /\ retry.pc \in {"loop", "call"}
  /\ retry.cancelledAt = "none"
  /\ retry' = [retry EXCEPT !.cancelledAt = retry.pc]
  /\ RetryUnchanged

\* lines 224-229: fn is invoked and returns nil or an error
RetryCall ==
  /\ retry.pc = "call"
  /\ \E e \in {"nil", "err"} :
       LET t == Append(retry.trace,
                       [ev |-> "call", attempt |-> retry.attempt, delay |-> 0,
                        res |-> e])
       IN  retry' = IF e = "nil"
                    THEN [retry EXCEPT !.pc = "done", !.result = "nil", !.trace = t]
                    ELSE [retry EXCEPT !.pc = "loop", !.lastErr = "err",
                                       !.attempt = @ + 1, !.trace = t]
  /\ RetryUnchanged

\* calculateDelay applied to the attempt drawn at the start
ApplyCalculateDelay ==
  /\ retry.pc = "delay"
  /\ \E d \in Delays(retry.r, retry.attempt) :
       retry' = [retry EXCEPT !.pc = "delayed", !.delay = d]
  /\ RetryUnchanged

\* ------------------------------------------- HealthCheckHandler's steps
HealthUnchanged ==
  UNCHANGED <<services, cb, req, mu, thr, recovered, abandoned, failRun, trialSucc, overlap, stats, retry>>

\* GET /health arrives: lines 149-150
HealthCheckHandler ==
  /\ health.pc \in {"idle", "done"}
  /\ health' = [IdleHealth EXCEPT !.pc = "loop", !.todo = DOMAIN services]
  /\ HealthUnchanged

\* line 152: the range loop takes the next service, in the map's order, and
\* calls checkServiceHealth; the call returns in this step unless it makes
\* the round trip
HealthNext ==
  /\ health.pc = "loop"
  /\ \E name \in health.todo :
       health' = IF Probes(services[name])
                 THEN [health EXCEPT !.pc = "probe", !.cur = name]
                 ELSE Collect(health, name, NoRoundTrip)
  /\ HealthUnchanged

\* lines 195-206, then 154-162: client.Do returns and the loop body ends
HealthProbeReturn ==
  /\ health.pc = "probe"
  /\ \E rt \in RoundTrips : health' = Collect(health, health.cur, rt)
  /\ HealthUnchanged

\* lines 165-174: the loop is over, the response is written
HealthRespond ==
  /\ health.pc = "loop"
  /\ health.todo = {}
  /\ health' = [health EXCEPT
                  !.pc = "done",
                  !.status = IF ~health.overallHealthy
                             THEN StatusServiceUnavailable ELSE StatusOK]
  /\ HealthUnchanged

\* some goroutine calls cb1.GetStats()
CallGetStats ==
  /\ stats' = GetStats(cb["cb1"])
  /\ UNCHANGED <<services, cb, req, mu, thr, recovered, abandoned, failRun, trialSucc, overlap, health, retry>>

Next ==
  \/ Tick
  \/ \E p \in Procs : Execute(p)
  \/ \E p \in Procs : GetStateUpgrade(p)
  \/ \E p \in Procs : GetStateReturn(p)
  \/ \E p \in Procs : FnReturn(p)
  \/ \E p \in Procs : CtxDone(p)
  \/ \E p \in Procs : FnLateReturn(p)
  \/ \E p \in Procs : ExecuteSuccess(p)
  \/ \E p \in Procs : ExecuteFailure(p)

\* The gateway serving requests.  Backend A answers every request before the
\* call deadline and no client of A goes away early: the deadline and the
\* cancellation are those of requests to the other services.
NextGw ==
  \/ Tick
  \/ \E p \in Procs, n \in Names : ProxyHandler(p, n)
  \/ \E p \in Procs : GetStateUpgrade(p)
  \/ \E p \in Procs : GetStateReturn(p)
  \/ \E p \in Procs : ProxyRequestReturn(p)
  \/ \E p \in Procs : req[p].name # "A" /\ CtxDone(p)
  \/ \E p \in Procs : ProxyRequestLateReturn(p)
  \/ \E p \in Procs : ExecuteSuccess(p)
  \/ \E p \in Procs : ExecuteFailure(p)

\* goroutines calling Execute on breaker cb1
Spec == Init /\ [][Next]_vars

SpecGw == InitGw /\ [][NextGw]_vars

\* the backend behind fn recovers while the breaker is Open
Recover ==
  /\ cb["cb1"].state = StateOpen
  /\ ~recovered
  /\ recovered' = TRUE
  /\ UNCHANGED <<services, cb, req, abandoned, failRun, trialSucc, overlap,
                 stats, health, retry, mu, thr>>

\* the steps of goroutine p when the calls invoked after the recovery return
\* nil before the deadline
LiveStep(p) ==
  \/ Execute(p)
  \/ GetStateUpgrade(p)
  \/ GetStateReturn(p)
  \/ FnReturn(p) /\ (req[p].good => req'[p].err = "nil")
  \/ ~req[p].good /\ CtxDone(p)
  \/ FnLateReturn(p)
  \/ ExecuteSuccess(p)
  \/ ExecuteFailure(p)

NextLive ==
  \/ Tick
  \/ Recover
  \/ \E p \in Procs : LiveStep(p)

InitLive == InitWith(NewGateway, {MaxK}, {MaxS})

\* Time keeps advancing, and every goroutine keeps going: its calls return,
\* it takes the lock it waits for, and it calls Execute again.
SpecLive ==
  /\ InitLive
  /\ [][NextLive]_vars
  /\ WF_vars(Tick)
  /\ \A p \in Procs : WF_vars(LiveStep(p))

\* ------------------------------- Execute and GetStats, lock by lock
ThreadUnchanged ==
  UNCHANGED <<services, req, failRun, trialSucc, overlap, stats, health, retry,
              abandoned, recovered>>

\* goroutine p calls cb1.Execute(ctx, fn)
BeginExecute(p) ==
  /\ thr[p].pc = "idle"
  /\ thr' = [thr EXCEPT ![p] = [IdleThread EXCEPT !.pc = "rlock1"]]
  /\ UNCHANGED <<cb, mu>>
  /\ ThreadUnchanged

\* getState, line 71: cb.mu.RLock()
GetStateRLock(p) ==
  /\ thr[p].pc = "rlock1"
  /\ CanRLock(mu)
  /\ mu' = RLock(mu, p)
  /\ thr' = [thr EXCEPT ![p].pc = "test"]
  /\ UNCHANGED cb
  /\ ThreadUnchanged

\* getState, lines 74-77 or 87 and 72: the test, then either RUnlock and the
\* call of Lock, or the return of the state with the deferred RUnlock
GetStateTest(p) ==
  /\ thr[p].pc = "test"
  /\ IF ResetElapsed(cb["cb1"])
     THEN /\ mu' = LockCall(RUnlock(mu, p), p)
          /\ thr' = [thr EXCEPT ![p].pc = "lock"]
     ELSE /\ mu' = RUnlock(mu, p)
          /\ thr' = [thr EXCEPT ![p].pc = "switch", ![p].st = cb["cb1"].state]
  /\ UNCHANGED cb
  /\ ThreadUnchanged

\* getState, line 77: Lock returns
GetStateLock(p) ==
  /\ thr[p].pc = "lock"
  /\ CanLock(mu)
  /\ mu' = Lock(mu, p)
  /\ thr' = [thr EXCEPT ![p].pc = "locked"]
  /\ UNCHANGED cb
  /\ ThreadUnchanged

\* getState, lines 78-82: the re-check, the transition, Unlock
GetStateWrite(p) ==
  /\ thr[p].pc = "locked"
  /\ cb' = [cb EXCEPT !["cb1"] = getStateLocked(@)]
  /\ mu' = Unlock(mu, p)
  /\ thr' = [thr EXCEPT ![p].pc = "rlock2"]
  /\ ThreadUnchanged

\* getState, line 83: cb.mu.RLock() again
GetStateRLockAgain(p) ==
  /\ thr[p].pc = "rlock2"
  /\ CanRLock(mu)
  /\ mu' = RLock(mu, p)
  /\ thr' = [thr EXCEPT ![p].pc = "reread"]
  /\ UNCHANGED cb
  /\ ThreadUnchanged

\* getState, line 87 and 72: the state is returned, the deferred RUnlock
GetStateReread(p) ==
  /\ thr[p].pc = "reread"
  /\ mu' = RUnlock(mu, p)
  /\ thr' = [thr EXCEPT ![p].pc = "switch", ![p].st = cb["cb1"].state]
  /\ UNCHANGED cb
  /\ ThreadUnchanged

\* Execute, lines 59-66: the circuit-open error, or fn is started
ExecuteSwitch(p) ==
  /\ thr[p].pc = "switch"
  /\ thr' = [thr EXCEPT ![p] =
               IF Admits(thr[p].st)
               THEN [@ EXCEPT !.pc = "call"]
               ELSE [IdleThread EXCEPT !.e = "open"]]
  /\ UNCHANGED <<cb, mu>>
  /\ ThreadUnchanged

\* executeWithTimeout returns nil, fn's error or the context's, and
\* onSuccess or onFailure calls Lock (lines 136, 152)
ExecuteCallReturn(p) ==
  /\ thr[p].pc = "call"
  /\ \E e \in {"nil", "err"} :
       thr' = [thr EXCEPT ![p].pc = "olock", ![p].e = e]
  /\ mu' = LockCall(mu, p)
  /\ UNCHANGED cb
  /\ ThreadUnchanged

\* onSuccess / onFailure: Lock returns
OutcomeLock(p) ==
  /\ thr[p].pc = "olock"
  /\ CanLock(mu)
  /\ mu' = Lock(mu, p)
  /\ thr' = [thr EXCEPT ![p].pc = "record"]
  /\ UNCHANGED cb
  /\ ThreadUnchanged

\* onSuccess / onFailure: the update and the deferred Unlock
OutcomeRecord(p) ==
  /\ thr[p].pc = "record"
  /\ cb' = [cb EXCEPT !["cb1"] =
              Saturate(IF thr[p].e = "nil" THEN onSuccess(@) ELSE onFailure(@))]
  /\ mu' = Unlock(mu, p)
  /\ thr' = [thr EXCEPT ![p] = [IdleThread EXCEPT !.e = thr[p].e]]
  /\ ThreadUnchanged

\* goroutine p calls cb1.GetStats()
BeginGetStats(p) ==
  /\ thr[p].pc = "idle"
  /\ thr' = [thr EXCEPT ![p] = [IdleThread EXCEPT !.pc = "srlock"]]
  /\ UNCHANGED <<cb, mu>>
  /\ ThreadUnchanged

\* GetStats, line 165: cb.mu.RLock()
GetStatsRLock(p) ==
  /\ thr[p].pc = "srlock"
  /\ CanRLock(mu)
  /\ mu' = RLock(mu, p)
  /\ thr' = [thr EXCEPT ![p].pc = "sread"]
  /\ UNCHANGED cb
  /\ ThreadUnchanged

\* GetStats, lines 169-170: state and failure_count are read
GetStatsReadFirst(p) ==
  /\ thr[p].pc = "sread"
  /\ thr' = [thr EXCEPT ![p].pc = "sread2",
                         ![p].snap.state = GetStats(cb["cb1"]).state,
                         ![p].snap.failure_count = GetStats(cb["cb1"]).failure_count]
  /\ UNCHANGED <<cb, mu>>
  /\ ThreadUnchanged

\* GetStats, lines 171-172 and 166: success_count and last_failure are read,
\* the map is returned, the deferred RUnlock
GetStatsReadRest(p) ==
  /\ thr[p].pc = "sread2"
  /\ thr' = [thr EXCEPT ![p].pc = "idle",
                         ![p].e = "stats",
                         ![p].snap.success_count = GetStats(cb["cb1"]).success_count,
                         ![p].snap.last_failure = GetStats(cb["cb1"]).last_failure]
  /\ mu' = RUnlock(mu, p)
  /\ UNCHANGED cb
  /\ ThreadUnchanged

\* a step of goroutine p inside a call it has made
ThreadStep(p) ==
  \/ GetStateRLock(p)
  \/ GetStateTest(p)
  \/ GetStateLock(p)
  \/ GetStateWrite(p)
  \/ GetStateRLockAgain(p)
  \/ GetStateReread(p)
  \/ ExecuteSwitch(p)
  \/ ExecuteCallReturn(p)
  \/ OutcomeLock(p)
  \/ OutcomeRecord(p)
  \/ GetStatsRLock(p)
  \/ GetStatsReadFirst(p)
  \/ GetStatsReadRest(p)

NextLock ==
  \/ Tick
  \/ \E p \in Procs : BeginExecute(p)
  \/ \E p \in Procs : BeginGetStats(p)
  \/ \E p \in Procs : ThreadStep(p)

InitLock == InitWith(NewGateway, {MaxK}, {MaxS})

\* Every call returns in the end: fn returns or its deadline passes, and a
\* goroutine that can take the lock again and again does take it.
SpecLock ==
  /\ InitLock
  /\ [][NextLock]_vars
  /\ \A p \in Procs : SF_vars(ThreadStep(p))

\* executes on breaker cb1 interleaved with GetStats calls
NextStats ==
  \/ Next
  \/ CallGetStats

SpecStats == Init /\ [][NextStats]_vars

\* the gateway serving requests, the forward function being free to panic
NextPanic ==
  \/ NextGw
  \/ \E p \in Procs : FnPanic(p)

SpecPanic == InitGw /\ [][NextPanic]_vars

\* A gateway that starts with an empty registry; register calls and dispatches
\* follow one another, the requests being served one at a time.
OneAtATime == {1}

NextReg ==
  \/ Tick
  \/ \E p \in OneAtATime, n \in Names : ProxyHandler(p, n)
  \/ \E p \in OneAtATime : GetStateUpgrade(p)
  \/ \E p \in OneAtATime : GetStateReturn(p)
  \/ \E p \in OneAtATime : ProxyRequestReturn(p)
  \/ \E p \in OneAtATime : CtxDone(p)
  \/ \E p \in OneAtATime : ProxyRequestLateReturn(p)
  \/ \E p \in OneAtATime : ExecuteSuccess(p)
  \/ \E p \in OneAtATime : ExecuteFailure(p)
  \/ \E c \in Configs : RegisterService(c)

\* NewGateway, and nothing registered yet
InitReg == InitWith(NewGateway, {MaxK}, {MaxS})

SpecReg == InitReg /\ [][NextReg]_vars

NextRetry ==
  \/ RetryExecute
  \/ RetryLoop
  \/ RetryAfter
  \/ RetryCtxDone
  \/ RetryCancelWaiting
  \/ RetryCancel
  \/ RetryCall

\* one goroutine calling Execute of some Retry value with some fn and context
InitRetry ==
  /\ InitBase(NewGateway, {MaxK}, {MaxS})
  /\ \E r \in Retries : retry = [IdleRetry EXCEPT !.r = r]

SpecRetry == InitRetry /\ [][NextRetry]_vars

\* calculateDelay applied to one attempt of one Retry value
InitDelay ==
  /\ InitBase(NewGateway, {MaxK}, {MaxS})
  /\ \E r \in Retries, a \in 1..MaxAttempt :
       /\ r.MaxRetries = MaxN
       /\ retry = [IdleRetry EXCEPT !.r = r, !.attempt = a, !.pc = "delay"]

SpecDelay == InitDelay /\ [][ApplyCalculateDelay]_vars

RECURSIVE AfterFailures(_, _)
\* breaker c after n more executes whose calls failed, one after the other
AfterFailures(c, n) == IF n = 0 THEN c ELSE AfterFailures(onFailure(c), n - 1)

\* A gateway whose services differ in their health paths.  The breaker of a
\* service is as NewCircuitBreaker made it, or has just been opened by
\* MaxFailures failed dispatches in a row.
InitHealth ==
  \E hp \in [Registered -> {"", "/health"}], urlOk \in [Registered -> BOOLEAN],
     tripped \in SUBSET Registered :
    LET settings == [MaxFailures |-> MaxK, ResetTimeout |-> ResetTimeout,
                     SuccessThreshold |-> MaxS]
        cbOf(n) == setupGateway(urlOk)[n].CircuitBreaker
        open == {cbOf(n) : n \in tripped}
    IN  /\ urlOk["A"]
        /\ services = [n \in Registered |->
                         [Name |-> n, URLValid |-> urlOk[n], HealthPath |-> hp[n],
                          Timeout |-> DefaultTimeout, CircuitBreaker |-> cbOf(n)]]
        /\ cb = [id \in Breakers |->
                   AfterFailures(NewCircuitBreaker(settings),
                                 IF id \in open THEN MaxK ELSE 0)]
        /\ failRun = [id \in Breakers |-> IF id \in open THEN MaxK ELSE 0]
        /\ req = [p \in Procs |-> IdleReq]
        /\ trialSucc = [id \in Breakers |-> -1]
        /\ overlap = [id \in Breakers |-> FALSE]
        /\ stats = NoStats
        /\ health = IdleHealth
        /\ retry = IdleRetry
        /\ abandoned = [p \in Procs |-> FALSE]
        /\ recovered = FALSE
        /\ mu = FreeMutex
        /\ thr = [p \in Procs |-> IdleThread]

\* GET /health served time and again, as time goes by
NextHealth ==
  \/ Tick
  \/ HealthCheckHandler
  \/ HealthNext
  \/ HealthProbeReturn
  \/ HealthRespond

SpecHealth == InitHealth /\ [][NextHealth]_vars

\* ================================================================ claims

\* some action of goroutine p
StepOf(p) ==
  \/ Execute(p)
  \/ \E n \in Names : ProxyHandler(p, n)
  \/ GetStateUpgrade(p)
  \/ GetStateReturn(p)
  \/ FnReturn(p)
  \/ ProxyRequestReturn(p)
  \/ CtxDone(p)
  \/ FnLateReturn(p)
  \/ ProxyRequestLateReturn(p)
  \/ ExecuteSuccess(p)
  \/ ExecuteFailure(p)

NotElapsed(c) == c.state = StateOpen /\ c.sinceFailure <= c.settings.ResetTimeout

\* C1: with MaxFailures = k and no success recorded so far, the breaker is
\* Closed while fewer than k failures have been recorded, the execute that
\* starts after k-1 failures still runs fn, and the step that records the k-th
\* failure leaves the breaker Open.
C1_OpensAtMaxFailures ==
  /\ [](\A id \in Breakers :
          (failRun[id] >= 0 /\ failRun[id] < cb[id].settings.MaxFailures)
             => cb[id].state = StateClosed)
  /\ [][\A p \in Procs :
          LET id == req'[p].cbid
              k  == cb[id].settings.MaxFailures
          IN  /\ (Execute(p) /\ failRun[id] = k - 1) => req'[p].pc = "call"
              /\ (ExecuteFailure(p) /\ failRun'[id] = k)
                   => cb'[id].state = StateOpen]_vars

\* the MaxK-th failure in a row has just opened a breaker with MaxFailures = MaxK
C1_Witness ==
  \E id \in Breakers :
    /\ cb[id].settings.MaxFailures = MaxK
    /\ failRun[id] = MaxK
    /\ cb[id].state = StateOpen
    /\ cb[id].sinceFailure = 0

\* C2: an Execute that starts while the breaker is Open and the reset timeout
\* has not elapsed returns the circuit-open error in that same step, without
\* running fn, whatever the other goroutines are doing.
C2_OpenRejects ==
  [][\A p \in Procs :
       (Execute(p) /\ NotElapsed(cb[req'[p].cbid]))
          => (req'[p].pc = "idle" /\ req'[p].err = "open")]_vars

\* a goroutine was turned away by a breaker that is Open within its reset
\* timeout, while another goroutine is still inside Execute
C2_Witness ==
  \E p \in Procs, q \in Procs :
    /\ p # q
    /\ req[p].pc = "idle" /\ req[p].err = "open"
    /\ NotElapsed(cb[req[p].cbid])
    /\ Active(q, req[p].cbid)

C4_ClosesAtThreshold ==
  [][\A p \in Procs :
       LET id == req[p].cbid
           s  == cb[id].settings.SuccessThreshold
       IN  (~overlap[id] /\ ExecuteSuccess(p) /\ cb[id].state = StateHalfOpen)
             => IF trialSucc'[id] = s
                THEN /\ cb'[id].state = StateClosed
                     /\ cb'[id].failureCount = 0
                     /\ cb'[id].successCount = 0
                ELSE /\ trialSucc'[id] < s
                     /\ cb'[id].state = StateHalfOpen]_vars

\* MaxS half-open successes in a row have just closed the breaker
C4_Witness ==
  \E id \in Breakers :
    /\ ~overlap[id]
    /\ cb[id].settings.SuccessThreshold = MaxS
    /\ trialSucc[id] = MaxS
    /\ cb[id].state = StateClosed
    /\ cb[id].failureCount = 0 /\ cb[id].successCount = 0

\* C5: the step that records the failure of a call admitted while HalfOpen
\* leaves the breaker Open with successCount 0 and lastFailureTime the time of
\* that step.
C5_HalfOpenFailureReopens ==
  [][\A p \in Procs :
       LET id == req[p].cbid IN
       (ExecuteFailure(p) /\ req[p].st = StateHalfOpen)
          => /\ cb'[id].state = StateOpen
             /\ cb'[id].successCount = 0
             /\ cb'[id].sinceFailure = 0]_vars

\* C6: the step that ends a dispatch whose round trip failed in transport
\* adds one to the failureCount of the backend's breaker, and the client's
\* response is a 502.
C6_UnreachableCountsFailure ==
  [][\A p \in Procs :
       LET id == req[p].cbid IN
       ((ExecuteSuccess(p) \/ ExecuteFailure(p)) /\ req[p].rt.kind = "refused")
          => /\ cb'[id].failureCount = cb[id].failureCount + 1
             /\ req'[p].resp # <<>>
             /\ req'[p].resp[1].code = StatusBadGateway]_vars

\* C7: a dispatch to a registered service whose breaker is Open within its
\* reset timeout ends in its first step with the 503 response that names the
\* service as the only thing written, and without proxyRequest being started.
C7_OpenAnswers503 ==
  [][\A p \in Procs, n \in Registered :
       (ProxyHandler(p, n) /\ NotElapsed(cb[services[n].CircuitBreaker]))
          => req'[p] = [IdleReq EXCEPT
                          !.name = n, !.cbid = services[n].CircuitBreaker,
                          !.err = "open",
                          !.resp = <<[code |-> StatusServiceUnavailable,
                                      service |-> n]>>]]_vars

\* a dispatch was answered 503 by a breaker that is Open within its timeout
C7_Witness ==
  \E p \in Procs :
    /\ req[p].name \in Registered
    /\ req[p].pc = "idle" /\ req[p].err = "open"
    /\ req[p].rt = NoRoundTrip
    /\ req[p].resp = <<[code |-> StatusServiceUnavailable, service |-> req[p].name]>>
    /\ NotElapsed(cb[services[req[p].name].CircuitBreaker])

\* C8: when proxyRequest's round trip completes with a status of the backend
\* and Execute receives its result, that status is what the client gets, fn's
\* result is nil, and the step that records it neither raises failureCount
\* nor opens the breaker.
C8_StatusPassesThrough ==
  [][\A p \in Procs :
       LET id == req[p].cbid IN
       /\ (ProxyRequestReturn(p) /\ req'[p].rt.kind = "status")
            => /\ req'[p].pc = "onSuccess"
               /\ req'[p].resp = <<[code |-> req'[p].rt.code, service |-> "-"]>>
       /\ (req[p].rt.kind = "status" /\ req[p].pc # "idle" /\ req'[p].pc = "idle")
            => /\ req'[p].err = "nil"
               /\ req'[p].resp = req[p].resp
               /\ cb'[id].failureCount <= cb[id].failureCount
               /\ (cb'[id].state = StateOpen => cb[id].state = StateOpen)]_vars

\* a dispatch passed a 500 of the backend through and the breaker is Closed
\* with no failure counted
C8_Witness ==
  \E p \in Procs :
    /\ req[p].pc = "idle" /\ req[p].err = "nil"
    /\ req[p].resp = <<[code |-> 500, service |-> "-"]>>
    /\ cb[req[p].cbid].state = StateClosed
    /\ cb[req[p].cbid].failureCount = 0

\* C9: a step of a request to one registered service leaves the breaker of
\* every other registered service as it was; and the breaker of A, whose calls
\* all succeed, stays Closed with no failure counted or timed, and no request
\* to A is turned away or answered by the gateway's own error, whatever happens
\* to B.
C9_BreakersIndependent ==
  /\ [](LET a == cb[services["A"].CircuitBreaker] IN
          /\ a.state = StateClosed
          /\ a.failureCount = 0
          /\ a.sinceFailure = LongAgo
          /\ \A p \in Procs :
               req[p].name = "A"
                 => /\ req[p].err \in {"none", "nil"}
                    /\ req[p].pc \notin {"upgrade", "reread", "onFailure"})
  /\ [][\A p \in Procs, n \in Registered, m \in Registered :
          (n # m /\ req'[p].name = n /\ req'[p] # req[p] /\ StepOf(p))
             => cb'[services[m].CircuitBreaker] = cb[services[m].CircuitBreaker]]_vars

\* a request to A is running its call while the breaker of B is Open
C9_Witness ==
  \E p \in Procs :
    /\ req[p].name = "A" /\ req[p].pc = "call"
    /\ cb[services["B"].CircuitBreaker].state = StateOpen
    /\ cb[services["A"].CircuitBreaker].state = StateClosed

\* C10: whenever the breaker is Closed after having been HalfOpen, at least
\* SuccessThreshold calls admitted during its last HalfOpen period had
\* succeeded when it left that period.
C10_OnlyCurrentTrialsClose ==
  \A id \in Breakers :
    (cb[id].state = StateClosed /\ trialSucc[id] >= 0)
       => trialSucc[id] >= cb[id].settings.SuccessThreshold

\* the state changes of section 4.2
Edges ==
  {<<StateClosed, StateOpen>>, <<StateOpen, StateHalfOpen>>,
   <<StateHalfOpen, StateClosed>>, <<StateHalfOpen, StateOpen>>}

\* C11: right after every step that changes the state of a breaker, its
\* failureCount and its successCount are both 0.
C11_CountersZeroAfterTransition ==
  [][\A id \in Breakers :
       cb'[id].state # cb[id].state
         => (cb'[id].failureCount = 0 /\ cb'[id].successCount = 0)]_vars

\* C12: a breaker starts Closed, and under every interleaving of executes and
\* GetStats calls each step either leaves its state alone or changes it along
\* Closed->Open, Open->HalfOpen, HalfOpen->Closed or HalfOpen->Open; a GetStats
\* call changes nothing of the breaker.
C12_OnlyFourEdges ==
  /\ \A id \in Breakers : cb[id].state = StateClosed
  /\ [][/\ \A id \in Breakers :
            cb'[id].state # cb[id].state
              => <<cb[id].state, cb'[id].state>> \in Edges
        /\ CallGetStats => cb' = cb]_vars

\* a GetStats call saw the breaker HalfOpen with one success counted, and the
\* breaker has since gone back to Open while an execute is in flight
C12_Witness ==
  /\ stats.state = "HALF_OPEN" /\ stats.success_count = 1
  /\ cb["cb1"].state = StateOpen
  /\ cb["cb1"].sinceFailure = 0
  /\ trialSucc["cb1"] = 1
  /\ \E p \in Procs : Active(p, "cb1")

\* C13: the step in which the forward function of a dispatch panics ends that
\* dispatch with a 502 as the last thing written to its client, and leaves
\* every other goroutine of the gateway as it was, free to go on.
C13_PanicRecovered ==
  [][\A p \in Procs :
       FnPanic(p)
         => /\ req'[p].pc = "idle"
            /\ req'[p].resp # <<>>
            /\ req'[p].resp[Len(req'[p].resp)].code = StatusBadGateway
            /\ \A q \in Procs \ {p} : req'[q] = req[q]]_vars

\* C14: a RegisterService call for a name that is already registered leaves
\* the registry and the breakers as they were.
C14_DuplicateRejected ==
  [][\A c \in Configs :
       (RegisterService(c) /\ c.Name \in DOMAIN services)
          => (services' = services /\ cb' = cb)]_vars

\* C15: no two registered names hold the same breaker, and no step takes a
\* registered name away or gives it another breaker object than it had.
C15_OneBreakerForLife ==
  /\ [](\A n \in DOMAIN services, m \in DOMAIN services :
          n # m => services[n].CircuitBreaker # services[m].CircuitBreaker)
  /\ [][\A n \in DOMAIN services :
          /\ n \in DOMAIN services'
          /\ services'[n].CircuitBreaker = services[n].CircuitBreaker]_vars

\* the invocations of fn so far
Calls == {j \in 1..Len(retry.trace) : retry.trace[j].ev = "call"}

\* C16: Retry.Execute alternates invocations of fn and waits, starting with an
\* invocation: the wait before the i-th retry lasts calculateDelay(i).  An
\* invocation that returns nil is the last event, and Execute returns nil.
\* With MaxRetries = n >= 0, every invocation failing and the context never
\* cancelled, Execute returns the error after exactly n + 1 invocations.
C16_AttemptsAndWaits ==
  LET t == retry.trace
      n == retry.r.MaxRetries
  IN  /\ \A j \in 1..Len(t) :
            IF j % 2 = 1
            THEN t[j].ev = "call" /\ t[j].attempt = j \div 2
            ELSE /\ t[j].ev = "wait"
                 /\ t[j].attempt = j \div 2
                 /\ t[j].delay \in Delays(retry.r, j \div 2)
      /\ \A j \in Calls :
            t[j].res = "nil"
              => (j = Len(t) /\ retry.pc = "done" /\ retry.result = "nil")
      /\ ( /\ retry.pc = "done"
           /\ n >= 0
           /\ retry.cancelledAt = "none"
           /\ \A j \in Calls : t[j].res = "err" )
           => /\ Cardinality(Calls) = n + 1
              /\ Len(t) = 2 * n + 1
              /\ retry.result = "err"

\* Execute has returned the error after MaxN + 1 failed invocations and MaxN
\* waits, the context never cancelled
C16_Witness ==
  /\ retry.pc = "done" /\ retry.result = "err"
  /\ retry.r.MaxRetries = MaxN
  /\ retry.cancelledAt = "none"
  /\ Len(retry.trace) = 2 * MaxN + 1
  /\ retry.trace[2 * MaxN].ev = "wait"

\* C17: when the context is cancelled while Execute waits before a retry,
\* that step ends Execute with the context's error, the wait is not recorded
\* as completed and fn is not invoked again.
C17_CancelEndsWait ==
  /\ [][(retry.pc = "wait" /\ retry.cancelledAt = "none"
            /\ retry'.cancelledAt # "none")
           => /\ retry'.pc = "done"
              /\ retry'.result = "ctx"
              /\ retry'.trace = retry.trace]_vars
  /\ [](retry.cancelledAt = "wait"
          => /\ retry.pc = "done" /\ retry.result = "ctx"
             /\ retry.trace[Len(retry.trace)].ev = "call")

\* Execute was cancelled during the wait before its second retry
C17_Witness ==
  /\ retry.cancelledAt = "wait"
  /\ retry.result = "ctx"
  /\ retry.attempt = 2
  /\ Cardinality(Calls) = 2

\* base * m^(a-1) for whole numbers, at most TooBig
Exact(r, a) == Mul(r.BaseDelay, pow(r.Multiplier, a - 1))

\* min(base * m^(a-1), maxDelay)
Capped(r, a) == IF Exact(r, a) > r.MaxDelay THEN r.MaxDelay ELSE Exact(r, a)

\* C18: with jitter disabled calculateDelay(a) is min(BaseDelay * m^(a-1),
\* MaxDelay); with jitter enabled it lies between half of that and that.
C18_DelayIsCappedPower ==
  retry.pc = "delayed"
    => IF retry.r.Jitter
       THEN /\ 2 * retry.delay >= Capped(retry.r, retry.attempt)
            /\ retry.delay <= Capped(retry.r, retry.attempt)
       ELSE retry.delay = Capped(retry.r, retry.attempt)

\* the services whose checkServiceHealth call has begun
Started == DOMAIN health.results \cup ({health.cur} \ {NoName})

\* C19: the probes are fanned out: while the probe of one service is in
\* flight, the check of every registered service has begun; and the response
\* is written only when every check has returned.
C19_ProbesFanOut ==
  /\ health.pc = "probe" => Started = DOMAIN services
  /\ health.pc = "done" => DOMAIN health.results = DOMAIN services

\* the health contract of a backend: a 2xx answer of its health path
Answers2xx(n) ==
  /\ services[n].URLValid
  /\ health.rt[n].kind = "status"
  /\ health.rt[n].code >= 200 /\ health.rt[n].code < 300

\* C20: the response lists every registered service; a service is reported
\* healthy exactly when it has no health path, then without a round trip, or
\* its probe was answered 2xx; the aggregate is healthy exactly when every
\* service is, and then the status is 200, otherwise 503.
C20_AggregateIsConjunction ==
  health.pc = "done"
    => /\ DOMAIN health.results = DOMAIN services
       /\ \A n \in DOMAIN services :
            /\ health.results[n].healthy
                 <=> (services[n].HealthPath = "" \/ Answers2xx(n))
            /\ services[n].HealthPath = "" => health.rt[n] = NoRoundTrip
       /\ health.overallHealthy
            <=> \A n \in DOMAIN services : health.results[n].healthy
       /\ health.status = IF health.overallHealthy
                          THEN StatusOK ELSE StatusServiceUnavailable

\* a 503 that lists B, which has no health path, as healthy without a round
\* trip, and A, whose probe was answered 404, as unhealthy
C20_Witness ==
  /\ health.pc = "done" /\ health.status = StatusServiceUnavailable
  /\ services["B"].HealthPath = "" /\ health.results["B"].healthy
  /\ health.rt["B"] = NoRoundTrip
  /\ health.rt["A"] = [kind |-> "status", code |-> 404]
  /\ ~health.results["A"].healthy
  /\ health.results["A"].circuit_breaker.state = "OPEN"

\* C21: in a run of executes that never overlap, a success recorded while
\* Closed leaves the breaker Closed with failureCount 0, a failure recorded
\* while Closed adds one to failureCount and opens the breaker exactly when
\* that makes MaxFailures, and a Closed breaker has counted fewer than
\* MaxFailures failures: only MaxFailures failures with no success between
\* them open it.
C21_SuccessResetsFailures ==
  /\ [](\A id \in Breakers :
          (~overlap[id] /\ cb[id].state = StateClosed)
             => cb[id].failureCount < cb[id].settings.MaxFailures)
  /\ [][\A p \in Procs :
          LET id == req[p].cbid IN
          (~overlap[id] /\ cb[id].state = StateClosed)
             => /\ ExecuteSuccess(p)
                     => (cb'[id].state = StateClosed /\ cb'[id].failureCount = 0)
                /\ ExecuteFailure(p)
                     => /\ cb'[id].failureCount = cb[id].failureCount + 1
                        /\ cb'[id].state = StateOpen
                             <=> cb'[id].failureCount >= cb[id].settings.MaxFailures]_vars

\* MaxFailures = 2: both goroutines have had a call fail, exactly one call
\* has succeeded, between the two failures, and the breaker is Closed
C21_Witness ==
  /\ ~overlap["cb1"]
  /\ cb["cb1"].settings.MaxFailures = 2
  /\ cb["cb1"].state = StateClosed
  /\ trialSucc["cb1"] = -1
  /\ cb["cb1"].successCount = 1
  /\ cb["cb1"].failureCount = 1
  /\ \A p \in Procs : req[p].pc = "idle" /\ req[p].err = "err"

\* C22: the step in which the deadline or the cancellation comes first
\* touches no breaker; Execute then records one failure and returns the
\* context's error, whether fn has returned by then or not; and the step in
\* which the abandoned fn returns, with nil or an error, changes no breaker.
C22_TimeoutCountsOnce ==
  /\ [](\A p \in Procs :
          (req[p].pc = "onFailure" /\ cb[req[p].cbid].failureCount < MaxFail)
             => ENABLED ExecuteFailure(p))
  /\ [][\A p \in Procs :
          LET id == req[p].cbid IN
          /\ CtxDone(p) => (cb' = cb /\ req'[p].pc = "onFailure")
          /\ (ExecuteFailure(p) /\ req[p].err = "ctx")
               => /\ cb'[id].failureCount = cb[id].failureCount + 1
                  /\ req'[p].pc = "idle" /\ req'[p].err = "ctx"
                  /\ abandoned'[p] = abandoned[p]
          /\ FnLateReturn(p) => (cb' = cb /\ req' = req)]_vars

\* Execute has returned the context's error and counted one failure while
\* the fn it started is still running
C22_Witness ==
  \E p \in Procs :
    /\ req[p].pc = "idle" /\ req[p].err = "ctx"
    /\ abandoned[p]
    /\ cb[req[p].cbid].failureCount = 1
    /\ cb[req[p].cbid].sinceFailure = 0
    /\ \A q \in Procs \ {p} : req[q].pc = "idle" /\ req[q].err = "none"

\* C23: an Execute that finds the breaker HalfOpen runs fn as a half-open
\* trial in that step, and so does one that getState's second read finds
\* HalfOpen, however many trials are in flight.
C23_HalfOpenAdmitsAll ==
  [][\A p \in Procs :
       LET id == req'[p].cbid IN
       ((Execute(p) \/ GetStateReturn(p)) /\ cb[id].state = StateHalfOpen)
          => (req'[p].pc = "call" /\ req'[p].st = StateHalfOpen)]_vars

\* every goroutine is running a half-open trial of the same breaker at once
C23_Witness ==
  /\ cb["cb1"].state = StateHalfOpen
  /\ \A p \in Procs :
       /\ req[p].pc = "call" /\ req[p].cbid = "cb1"
       /\ req[p].st = StateHalfOpen /\ req[p].cur

\* C24: once the backend has recovered while the breaker was Open, whenever
\* the breaker is Open it is Closed some time later; and only the recording
\* of a failure takes a breaker out of Closed.
C24_RecoversByItself ==
  /\ (recovered /\ cb["cb1"].state = StateOpen) ~> (cb["cb1"].state = StateClosed)
  /\ [][\A id \in Breakers :
          (cb[id].state = StateClosed /\ cb'[id].state # StateClosed)
             => \E p \in Procs : ExecuteFailure(p) /\ req[p].cbid = id]_vars

\* after the recovery the breaker has been closed by MaxS half-open trials
C24_Witness ==
  /\ recovered
  /\ cb["cb1"].state = StateClosed
  /\ trialSucc["cb1"] = MaxS
  /\ cb["cb1"].failureCount = 0

\* C25: when Retry.Execute has returned, fn has been invoked at least once,
\* and if it returned nil some invocation of fn returned nil.
C25_CallsAtLeastOnce ==
  retry.pc = "done"
    => /\ Calls # {}
       /\ retry.result = "nil"
            => \E j \in Calls : retry.trace[j].res = "nil"

\* C26: every snapshot GetStats returns is the breaker's state, failure count,
\* success count and last failure time as they stand together at the instant
\* of the return, whatever executes run beside it; no step of GetStats changes
\* the breaker, and an Open breaker whose reset timeout has elapsed is
\* reported Open and left Open.
C26_SnapshotAtOneInstant ==
  [][\A p \in Procs :
       /\ GetStatsReadRest(p)
            => /\ thr'[p].snap = GetStats(cb["cb1"])
               /\ ResetElapsed(cb["cb1"])
                    => /\ thr'[p].snap.state = "OPEN"
                       /\ cb'["cb1"].state = StateOpen
       /\ \/ BeginGetStats(p)
          \/ GetStatsRLock(p)
          \/ GetStatsReadFirst(p)
          \/ GetStatsReadRest(p)
          => cb' = cb]_vars

\* a snapshot of an Open breaker past its reset timeout has been returned
\* while another goroutine is blocked in Lock to record an outcome
C26_Witness ==
  \E p, q \in Procs :
    /\ thr[p].pc = "idle"
    /\ thr[p].e = "stats"
    /\ thr[p].snap.state = "OPEN"
    /\ thr[p].snap.last_failure = LongAgo
    /\ cb["cb1"].state = StateOpen
    /\ thr[q].pc = "olock"

\* C27: a breaker that is Open or HalfOpen has failureCount >= MaxFailures; a
\* step lowers failureCount only if it finds the breaker Closed or takes it
\* from HalfOpen to Closed; and every failure recorded while the breaker is
\* HalfOpen leaves it Open.
C27_OpenHasMaxFailures ==
  /\ [](\A id \in Breakers :
          cb[id].state \in {StateOpen, StateHalfOpen}
            => cb[id].failureCount >= cb[id].settings.MaxFailures)
  /\ [][\A id \in Breakers :
          /\ cb'[id].failureCount < cb[id].failureCount
               => \/ cb[id].state = StateClosed
                  \/ cb[id].state = StateHalfOpen /\ cb'[id].state = StateClosed
          /\ (cb[id].state = StateHalfOpen
                /\ cb'[id].failureCount > cb[id].failureCount)
               => cb'[id].state = StateOpen]_vars

\* a half-open trial has succeeded, and a failure recorded after it has put
\* the breaker back to Open with more than MaxFailures failures counted
C27_Witness ==
  /\ cb["cb1"].state = StateOpen
  /\ cb["cb1"].sinceFailure = 0
  /\ cb["cb1"].settings.SuccessThreshold = MaxS
  /\ trialSucc["cb1"] = 1
  /\ cb["cb1"].failureCount > cb["cb1"].settings.MaxFailures

\* C28: a dispatch writes at most one response to its client, and a forward
\* function that the breaker has given up on writes nothing to the client's
\* response, neither before nor after the dispatcher's 502.
C28_AbandonedNeverWrites ==
  /\ [](\A p \in Procs : Len(req[p].resp) <= 1)
  /\ [][\A p \in Procs :
          ProxyRequestLateReturn(p) => req'[p].resp = req[p].resp]_vars

\* C29: while a breaker stays Open its lastFailureTime is not written: over
\* every step that finds it Open and leaves it Open, the time since the last
\* failure does not go down, so the reset timeout runs from the moment the
\* breaker opened.
C29_OpenKeepsLastFailure ==
  [][\A id \in Breakers :
       (cb[id].state = StateOpen /\ cb'[id].state = StateOpen)
          => cb'[id].sinceFailure >= cb[id].sinceFailure]_vars

\* the lock operation goroutine p is blocked in, or about to make
Acquiring(p) == thr[p].pc \in {"rlock1", "lock", "rlock2", "olock", "srlock"}

Holding(p) == p \in mu.readers \/ mu.writer = p

\* C30: the breaker's lock never deadlocks: with executes (the upgrade from
\* read lock to write lock in getState included) and GetStats calls running
\* together, every goroutine that goes for the lock gets it, every goroutine
\* that holds it gives it up, every call returns, a writer holds the lock
\* alone, and nobody holds the lock once all calls have returned.
C30_LockNeverDeadlocks ==
  /\ \A p \in Procs : Acquiring(p) ~> Holding(p)
  /\ \A p \in Procs : Holding(p) ~> ~Holding(p)
  /\ \A p \in Procs : (thr[p].pc # "idle") ~> (thr[p].pc = "idle")
  /\ [](mu.writer # 0 => mu.readers = {})
  /\ []((\A p \in Procs : thr[p].pc = "idle") => mu = FreeMutex)

\* a goroutine that gave up its read lock in getState is blocked in Lock
\* while a GetStats call holds the read lock
C30_Witness ==
  \E p, q \in Procs :
    /\ thr[p].pc = "lock"
    /\ p \in mu.waiting
    /\ thr[q].pc \in {"sread", "sread2"}
    /\ q \in mu.readers

====
